---- MODULE Spec2Model ----
(***************************************************************************)
(* AddDisplacedPoints v3.0: label-driven displacement of 3D points.        *)
(*                                                                         *)
(* The model follows main() of AddDisplacedPoints.cpp step by step, with   *)
(* the helper functions extractLabelNumber, inAnyRange and chooseSet as    *)
(* operators and the displacement catalog of Extensions.h as constants.    *)
(*                                                                         *)
(* Representation:                                                         *)
(*   - a label is a sequence of one-character strings;                     *)
(*   - a double is a fixed-point integer counting 1/Scale mm, one decimal  *)
(*     digit finer than the 3 decimals the output stream prints, so that   *)
(*     the fixed-precision formatting of the CSV file is a real rounding;  *)
(*   - a line of the CSV file is a record of the label and the three       *)
(*     printed fields, each an integer count of thousandths.               *)
(***************************************************************************)
EXTENDS Integers, Sequences, FiniteSets, TLC

VARIABLES
    pc,            \* position of main()
    argc,          \* number of command-line arguments, program name included
    argv3,         \* argv[3] when argc = 4
    inputFile,     \* the records the external readPoints yields for argv[1]
    openable,      \* whether std::ofstream can open argv[2]
    rangesBlue,    \* const Range rangesBlue[]   (editable configuration)
    rangesRed,     \* const Range rangesRed[]    (editable configuration)
    writeOriginal, \* bool writeOriginal
    points,        \* std::vector<Point> points
    outState,      \* state of the std::ofstream out
    out,           \* lines written to the output CSV, in order
    stdout,        \* lines written to std::cout
    stderr,        \* lines written to std::cerr
    xBlueOrig, yBlueOrig,
    xRedOrig, yRedOrig,
    xDisp, yDisp,
    idx,           \* number of points the range-for has taken
    number,        \* int number        (loop local)
    nExt,          \* int nExt          (loop local)
    extList,       \* const Extension* extList (loop local): which array
    i,             \* int i             (inner loop counter)
    graphs,        \* the TGraphs handed to ROOT: grDisp, grBlue, grRed
    exitCode       \* the process exit status: {} while running, {n} once ended

vars == << pc, argc, argv3, inputFile, openable, rangesBlue, rangesRed,
           writeOriginal, points, outState, out, stdout, stderr,
           xBlueOrig, yBlueOrig, xRedOrig, yRedOrig, xDisp, yDisp,
           idx, number, nExt, extList, i, graphs, exitCode >>

-----------------------------------------------------------------------------
(* Bounds of the model                                                     *)

MaxPoints == 2      \* input files hold at most this many points
MaxLabelLen == 3    \* labels enumerated exhaustively up to this length
MaxRanges == 1      \* edited range tables hold at most this many ranges

-----------------------------------------------------------------------------
(* Numbers                                                                 *)

PRECISION == 3                    \* out << std::setprecision(3), fixed
Scale == 10 ^ (PRECISION + 1)     \* fixed-point units per millimetre
INT_MAX == 2147483647             \* largest int std::stoi returns

\* sqrt(2.0) in 1/Scale: the largest s with s*s <= 2*Scale*Scale
Sqrt2 ==
    CHOOSE s \in Scale..(2 * Scale) :
        s * s <= 2 * Scale * Scale /\ (s + 1) * (s + 1) > 2 * Scale * Scale

-----------------------------------------------------------------------------
(* Labels                                                                  *)

DigitChars == {"0", "1", "2", "3", "4", "5", "6", "7", "8", "9"}

\* std::isdigit(static_cast<unsigned char>(c)) in the "C" locale
isdigit(c) == c \in DigitChars

\* the numeric value of a decimal digit character
DigitVal(c) ==
    CASE c = "0" -> 0 [] c = "1" -> 1 [] c = "2" -> 2 [] c = "3" -> 3
      [] c = "4" -> 4 [] c = "5" -> 5 [] c = "6" -> 6 [] c = "7" -> 7
      [] c = "8" -> 8 [] c = "9" -> 9

\* digitsOf stopping at the end of the first group of digits
RECURSIVE digitsOfFirstGroup(_)
digitsOfFirstGroup(label) ==
    IF label = << >> THEN << >>
    ELSE IF isdigit(Head(label))
         THEN IF Len(label) >= 2 /\ isdigit(label[2])
              THEN << Head(label) >> \o digitsOfFirstGroup(Tail(label))
              ELSE << Head(label) >>
         ELSE digitsOfFirstGroup(Tail(label))

\* the loop of extractLabelNumber: digits += c for every digit character
RECURSIVE digitsOf(_)
digitsOf(label) ==
    IF label = << >> THEN << >>
    ELSE LET rest == digitsOf(Tail(label))
         IN  IF isdigit(Head(label)) THEN << Head(label) >> \o rest ELSE rest

\* the value strtol accumulates over a string of digits, left to right
RECURSIVE accumulate(_, _)
accumulate(acc, digits) ==
    IF digits = << >> THEN acc
    ELSE accumulate(acc * 10 + DigitVal(Head(digits)), Tail(digits))

\* whether the value of acc followed by digits exceeds INT_MAX (decided
\* before each step, so that no intermediate value leaves the int range)
RECURSIVE exceedsInt(_, _)
exceedsInt(acc, digits) ==
    IF digits = << >> THEN FALSE
    ELSE IF acc > (INT_MAX - DigitVal(Head(digits))) \div 10 THEN TRUE
    ELSE exceedsInt(acc * 10 + DigitVal(Head(digits)), Tail(digits))

\* std::stoi throws std::out_of_range when the value does not fit an int
stoiThrows(digits) == exceedsInt(0, digits)

\* std::stoi on a non-empty string of digits, when it returns
stoi(digits) == accumulate(0, digits)

\* extractLabelNumber leaves by an exception (only std::stoi can throw)
extractThrows(label) ==
    digitsOf(label) # << >> /\ stoiThrows(digitsOf(label))

\* extractLabelNumber, when it returns
extractLabelNumber(label) ==
    IF digitsOf(label) = << >> THEN -1 ELSE stoi(digitsOf(label))

-----------------------------------------------------------------------------
(* Range tables                                                            *)

Range(lo, hi) == [lo |-> lo, hi |-> hi]

DefaultRangesBlue ==
    << Range(1, 8), Range(16, 21), Range(28, 32), Range(37, 39), Range(42, 42) >>

\* rangesRed whose first range starts inside the first BLUE range
DefaultRangesRedOverlap ==
    << Range(8, 15), Range(22, 27), Range(33, 36), Range(40, 41) >>

DefaultRangesRed ==
    << Range(9, 15), Range(22, 27), Range(33, 36), Range(40, 41) >>

\* inAnyRangeFrom with the upper bound excluded
RECURSIVE inAnyRangeFromHalfOpen(_, _, _)
inAnyRangeFromHalfOpen(ranges, k, value) ==
    IF k > Len(ranges) THEN FALSE
    ELSE IF value >= ranges[k].lo /\ value < ranges[k].hi THEN TRUE
    ELSE inAnyRangeFromHalfOpen(ranges, k + 1, value)

\* for (i = 0; i < nRanges; ++i) if (value >= lo && value <= hi) return true
RECURSIVE inAnyRangeFrom(_, _, _)
inAnyRangeFrom(ranges, k, value) ==
    IF k > Len(ranges) THEN FALSE
    ELSE IF value >= ranges[k].lo /\ value <= ranges[k].hi THEN TRUE
    ELSE inAnyRangeFrom(ranges, k + 1, value)

inAnyRange(ranges, value) == inAnyRangeFrom(ranges, 1, value)

\* chooseSet without the tests number >= 0
chooseSetNoSentinelTest(blue, red, n) ==
    IF inAnyRangeFrom(blue, 1, n) THEN "BLUE"
    ELSE IF inAnyRangeFrom(red, 1, n) THEN "RED"
    ELSE "RED"

\* chooseSet testing the RED ranges first
chooseSetRedFirst(blue, red, n) ==
    IF n >= 0 /\ inAnyRangeFrom(red, 1, n) THEN "RED"
    ELSE IF n >= 0 /\ inAnyRangeFrom(blue, 1, n) THEN "BLUE"
    ELSE "RED"

\* chooseSet falling back to the BLUE set
chooseSetFallbackBlue(blue, red, n) ==
    IF n >= 0 /\ inAnyRangeFrom(blue, 1, n) THEN "BLUE"
    ELSE IF n >= 0 /\ inAnyRangeFrom(red, 1, n) THEN "RED"
    ELSE "BLUE"

\* chooseSet: the array it returns, named by its colour
chooseSet(blue, red, n) ==
    IF n >= 0 /\ inAnyRange(blue, n) THEN "BLUE"
    ELSE IF n >= 0 /\ inAnyRange(red, n) THEN "RED"
    ELSE "RED"

-----------------------------------------------------------------------------
(* Displacement catalog (Extensions.h)                                     *)

r == 2                                  \* small radial offset, mm
D == r * Sqrt2                          \* r * sqrt(2.0), in 1/Scale mm
R == 6                                  \* large radial offset, mm

\* std::cos and std::sin of the three preset angles, to seven decimals
TrigUnit == 10 ^ 7
cosDeg(a) == CASE a = -30 -> 8660254 [] a = 90 -> 0 [] a = -150 -> -8660254
sinDeg(a) == CASE a = -30 -> -5000000 [] a = 90 -> 10000000 [] a = -150 -> -5000000

\* a product of millimetres and a cosine or sine, to the nearest 1/Scale mm
ToScale(v) == (v + (TrigUnit \div (2 * Scale))) \div (TrigUnit \div Scale)

a1 == -30
a2 == 90
a3 == -150

Extension(ext, dx, dy, dz) == [ext |-> ext, dx |-> dx, dy |-> dy, dz |-> dz]

\* extListBlue whose last entry repeats the suffix of the sixth
extListBlueRepeatedSuffix ==
    << Extension(<<"_", "1">>,  D,  D, 0),
       Extension(<<"_", "2">>, -D,  D, 0),
       Extension(<<"_", "3">>, -D, -D, 0),
       Extension(<<"_", "4">>,  D, -D, 0),
       Extension(<<"_", "5">>, ToScale(R * cosDeg(a1)), ToScale(R * sinDeg(a1)), 0),
       Extension(<<"_", "6">>, ToScale(R * cosDeg(a2)), ToScale(R * sinDeg(a2)), 0),
       Extension(<<"_", "6">>, ToScale(R * cosDeg(a3)), ToScale(R * sinDeg(a3)), 0) >>

extListBlue ==
    << Extension(<<"_", "1">>,  D,  D, 0),
       Extension(<<"_", "2">>, -D,  D, 0),
       Extension(<<"_", "3">>, -D, -D, 0),
       Extension(<<"_", "4">>,  D, -D, 0),
       Extension(<<"_", "5">>, ToScale(R * cosDeg(a1)), ToScale(R * sinDeg(a1)), 0),
       Extension(<<"_", "6">>, ToScale(R * cosDeg(a2)), ToScale(R * sinDeg(a2)), 0),
       Extension(<<"_", "7">>, ToScale(R * cosDeg(a3)), ToScale(R * sinDeg(a3)), 0) >>

numExtBlue == Len(extListBlue)

\* extListRed with the sign of dy reversed in the diagonal entries as well
extListRedAllMirrored ==
    << Extension(<<"_", "1">>,  D, -D, 0),
       Extension(<<"_", "2">>, -D, -D, 0),
       Extension(<<"_", "3">>, -D,  D, 0),
       Extension(<<"_", "4">>,  D,  D, 0),
       Extension(<<"_", "5">>, ToScale(R * cosDeg(a1)), -ToScale(R * sinDeg(a1)), 0),
       Extension(<<"_", "6">>, ToScale(R * cosDeg(a2)), -ToScale(R * sinDeg(a2)), 0),
       Extension(<<"_", "7">>, ToScale(R * cosDeg(a3)), -ToScale(R * sinDeg(a3)), 0) >>

extListRed ==
    << Extension(<<"_", "1">>,  D,  D, 0),
       Extension(<<"_", "2">>, -D,  D, 0),
       Extension(<<"_", "3">>, -D, -D, 0),
       Extension(<<"_", "4">>,  D, -D, 0),
       Extension(<<"_", "5">>, ToScale(R * cosDeg(a1)), -ToScale(R * sinDeg(a1)), 0),
       Extension(<<"_", "6">>, ToScale(R * cosDeg(a2)), -ToScale(R * sinDeg(a2)), 0),
       Extension(<<"_", "7">>, ToScale(R * cosDeg(a3)), -ToScale(R * sinDeg(a3)), 0) >>

numExtRed == Len(extListRed)

\* ExtArray designating the BLUE array for either pointer
ExtArrayBlueOnly(set) == extListBlue

\* ExtCount one short for the RED array
ExtCountRedShort(set) == IF set = "BLUE" THEN numExtBlue ELSE numExtRed - 1

\* the array a chosen pointer designates, and the count chooseSet sets
ExtArray(set) == IF set = "BLUE" THEN extListBlue ELSE extListRed
ExtCount(set) == IF set = "BLUE" THEN numExtBlue ELSE numExtRed

-----------------------------------------------------------------------------
(* Output formatting                                                       *)

\* operator<< of a double under std::fixed, precision 3: the nearest
\* multiple of 0.001, as a count of thousandths (a half rounds up; no
\* coordinate of the inputs below ends in a half)
Fixed3(v) == (v + (Scale \div 2000)) \div (Scale \div 1000)

\* out << label << "," << x << "," << y << "," << z << "\n"
FormatLine(label, x, y, z) ==
    [label |-> label, x |-> Fixed3(x), y |-> Fixed3(y), z |-> Fixed3(z)]

-----------------------------------------------------------------------------
(* Inputs                                                                  *)

Point(label, x, y, z) == [label |-> label, coords |-> << x, y, z >>]

\* Labels of the input files of the whole-program specification: numbers in
\* a BLUE range (1, 42), in a RED range (12, 15 with a leading zero), in no
\* range (0, 159 from two digit groups), no digit at all, and a digit
\* string that does not fit an int.
MainLabels ==
    { << "A", "1" >>,
      << "C", "1", "2" >>,
      << "X", "Y" >>,
      << "A", "B", "C", "0", "1", "5", "Z", "9" >>,
      << "N", "2", "1", "4", "7", "4", "8", "3", "6", "4", "8" >> }

\* Coordinates (x, y, z) in 1/Scale mm: (100.0, 200.0, 3.0) and a triple
\* with a fourth decimal digit, (1.2346, -6.7891, 0.0004).
MainCoords ==
    { << 100 * Scale, 200 * Scale, 3 * Scale >>,
      << 12346, -67891, 4 >> }

MainPoints ==
    { Point(l, c[1], c[2], c[3]) : l \in MainLabels, c \in MainCoords }

SeqsUpTo(S, n) == UNION { [1..k -> S] : k \in 0..n }

InputFiles == SeqsUpTo(MainPoints, MaxPoints)

\* Every label of at most MaxLabelLen characters over a small alphabet of
\* letters, a separator and digits, and four longer ones: the two examples
\* of the documentation, the largest int and the smallest number above it.
LabelChars == { "A", "_", "0", "1", "5", "9" }

LongLabels ==
    { << "A", "B", "C", "0", "1", "5", "Z", "9" >>,
      << "P", "0", "1", "5" >>,
      << "2", "1", "4", "7", "4", "8", "3", "6", "4", "7" >>,
      << "2", "1", "4", "7", "4", "8", "3", "6", "4", "8" >> }

AllLabels == SeqsUpTo(LabelChars, MaxLabelLen) \cup LongLabels

LabelFiles == { << Point(l, 0, 0, 0) >> : l \in AllLabels }

\* the tables the program is built with
DefaultTables == { << DefaultRangesBlue, DefaultRangesRed >> }

\* Edited range tables: every table of at most MaxRanges ranges with bounds
\* among RangeVals (inverted ranges and ranges holding -1 included).
RangeVals == { -1, 1, 2 }

Tables == SeqsUpTo({ Range(lo, hi) : lo \in RangeVals, hi \in RangeVals },
                   MaxRanges)

EditedTables == (Tables \X Tables) \cup DefaultTables

\* Labels whose numbers are: none, 0, 1, 2 and 43.
CfgLabels ==
    { << "X" >>, << "K", "0" >>, << "K", "1" >>, << "K", "2" >>,
      << "K", "4", "3" >> }

CfgFiles == { << Point(l, 100 * Scale, 200 * Scale, 3 * Scale) >> : l \in CfgLabels }

NoOriginal == "--no-original"

-----------------------------------------------------------------------------
(* main()                                                                  *)

\* The state main() starts in, for an input file among files, range tables
\* among tables (pairs BLUE, RED), argument counts among argcs and an
\* output file that can be opened or not as in opens.
InitWith(files, tables, argcs, opens) ==
    /\ pc = "start"
    /\ argc \in argcs
    /\ argv3 \in IF argc = 4 THEN { NoOriginal, "--show" } ELSE { "" }
    /\ inputFile \in files
    /\ openable \in opens
    /\ \E t \in tables : rangesBlue = t[1] /\ rangesRed = t[2]
    /\ writeOriginal = TRUE
    /\ points = << >>
    /\ outState = "none"
    /\ out = << >>
    /\ stdout = << >>
    /\ stderr = << >>
    /\ xBlueOrig = << >> /\ yBlueOrig = << >>
    /\ xRedOrig = << >> /\ yRedOrig = << >>
    /\ xDisp = << >> /\ yDisp = << >>
    /\ idx = 0
    /\ number = 0
    /\ nExt = 0
    /\ extList = "nullptr"
    /\ i = 0
    /\ graphs = {}
    /\ exitCode = {}

\* the program as built, on every input file and command line of the bounds
Init == InitWith(InputFiles, DefaultTables, 2..5, BOOLEAN)

\* the point the range-for is at
Cur == points[idx]

\* Parse command-line arguments
\* argument parsing that ignores a fourth argument it does not know
ParseArgsLenient ==
    /\ pc = "start"
    /\ IF argc = 4
       THEN /\ writeOriginal' = (argv3 # NoOriginal)
            /\ pc' = "read"
            /\ UNCHANGED << stderr, exitCode >>
       ELSE IF argc # 3
            THEN /\ stderr' = Append(stderr, "Usage")
                 /\ exitCode' = {1}
                 /\ pc' = "exited"
                 /\ UNCHANGED writeOriginal
            ELSE /\ pc' = "read"
                 /\ UNCHANGED << writeOriginal, stderr, exitCode >>
    /\ UNCHANGED << argc, argv3, inputFile, openable, rangesBlue, rangesRed,
                    points, outState, out, stdout,
                    xBlueOrig, yBlueOrig, xRedOrig, yRedOrig, xDisp, yDisp,
                    idx, number, nExt, extList, i, graphs >>

ParseArgs ==
    /\ pc = "start"
    /\ IF argc = 4
       THEN IF argv3 = NoOriginal
            THEN /\ writeOriginal' = FALSE
                 /\ pc' = "read"
                 /\ UNCHANGED << stderr, exitCode >>
            ELSE /\ stderr' = Append(stderr, "Unknown option")
                 /\ exitCode' = {1}
                 /\ pc' = "exited"
                 /\ UNCHANGED writeOriginal
       ELSE IF argc # 3
            THEN /\ stderr' = Append(stderr, "Usage")
                 /\ exitCode' = {1}
                 /\ pc' = "exited"
                 /\ UNCHANGED writeOriginal
            ELSE /\ pc' = "read"
                 /\ UNCHANGED << writeOriginal, stderr, exitCode >>
    /\ UNCHANGED << argc, argv3, inputFile, openable, rangesBlue, rangesRed,
                    points, outState, out, stdout,
                    xBlueOrig, yBlueOrig, xRedOrig, yRedOrig, xDisp, yDisp,
                    idx, number, nExt, extList, i, graphs >>

\* std::vector<Point> points = readPoints(inputFile)
ReadPoints ==
    /\ pc = "read"
    /\ points' = inputFile
    /\ pc' = "open"
    /\ UNCHANGED << argc, argv3, inputFile, openable, rangesBlue, rangesRed,
                    writeOriginal, outState, out, stdout, stderr,
                    xBlueOrig, yBlueOrig, xRedOrig, yRedOrig, xDisp, yDisp,
                    idx, number, nExt, extList, i, graphs, exitCode >>

\* std::ofstream out(outputFile); if (!out.is_open()) return 1
OpenOutput ==
    /\ pc = "open"
    /\ IF ~openable
       THEN /\ stderr' = Append(stderr, "Error opening output file.")
            /\ exitCode' = {1}
            /\ pc' = "exited"
            /\ UNCHANGED << outState, out >>
       ELSE /\ outState' = "open"
            /\ out' = << >>
            /\ pc' = "loop"
            /\ UNCHANGED << stderr, exitCode >>
    /\ UNCHANGED << argc, argv3, inputFile, openable, rangesBlue, rangesRed,
                    writeOriginal, points, stdout,
                    xBlueOrig, yBlueOrig, xRedOrig, yRedOrig, xDisp, yDisp,
                    idx, number, nExt, extList, i, graphs >>

\* for (const auto& p : points): take the next point or leave the loop
LoopHead ==
    /\ pc = "loop"
    /\ IF idx < Len(points)
       THEN /\ idx' = idx + 1
            /\ pc' = "extract"
       ELSE /\ pc' = "close"
            /\ UNCHANGED idx
    /\ UNCHANGED << argc, argv3, inputFile, openable, rangesBlue, rangesRed,
                    writeOriginal, points, outState, out, stdout, stderr,
                    xBlueOrig, yBlueOrig, xRedOrig, yRedOrig, xDisp, yDisp,
                    number, nExt, extList, i, graphs, exitCode >>

Prefixes(s) == { SubSeq(s, 1, k) : k \in 0..Len(s) }

\* int number = extractLabelNumber(p.label).  An exception of std::stoi is
\* caught nowhere: std::terminate aborts the process (status 128 + SIGABRT)
\* without flushing the stream, so the file keeps some prefix of the lines.
ExtractNumber ==
    /\ pc = "extract"
    /\ IF extractThrows(Cur.label)
       THEN /\ pc' = "aborted"
            /\ exitCode' = {134}
            /\ out' \in Prefixes(out)
            /\ stderr' = Append(stderr, "terminate: std::out_of_range")
            /\ UNCHANGED number
       ELSE /\ number' = extractLabelNumber(Cur.label)
            /\ pc' = "choose"
            /\ UNCHANGED << out, stderr, exitCode >>
    /\ UNCHANGED << argc, argv3, inputFile, openable, rangesBlue, rangesRed,
                    writeOriginal, points, outState, stdout,
                    xBlueOrig, yBlueOrig, xRedOrig, yRedOrig, xDisp, yDisp,
                    idx, nExt, extList, i, graphs >>

\* int nExt = 0; const Extension* extList = chooseSet(number, nExt)
ChooseSet ==
    /\ pc = "choose"
    /\ extList' = chooseSet(rangesBlue, rangesRed, number)
    /\ nExt' = ExtCount(extList')
    /\ pc' = "tag"
    /\ UNCHANGED << argc, argv3, inputFile, openable, rangesBlue, rangesRed,
                    writeOriginal, points, outState, out, stdout, stderr,
                    xBlueOrig, yBlueOrig, xRedOrig, yRedOrig, xDisp, yDisp,
                    idx, number, i, graphs, exitCode >>

\* bool isBlue = (extList == extListBlue)
isBlue == extList = "BLUE"

\* TagOriginal skipping the point when the original is not written
TagOriginalIfWritten ==
    /\ pc = "tag"
    /\ IF ~writeOriginal
       THEN UNCHANGED << xBlueOrig, yBlueOrig, xRedOrig, yRedOrig >>
       ELSE IF isBlue
       THEN /\ xBlueOrig' = Append(xBlueOrig, Cur.coords[1])
            /\ yBlueOrig' = Append(yBlueOrig, Cur.coords[2])
            /\ UNCHANGED << xRedOrig, yRedOrig >>
       ELSE /\ xRedOrig' = Append(xRedOrig, Cur.coords[1])
            /\ yRedOrig' = Append(yRedOrig, Cur.coords[2])
            /\ UNCHANGED << xBlueOrig, yBlueOrig >>
    /\ pc' = "orig"
    /\ UNCHANGED << argc, argv3, inputFile, openable, rangesBlue, rangesRed,
                    writeOriginal, points, outState, out, stdout, stderr,
                    xDisp, yDisp,
                    idx, number, nExt, extList, i, graphs, exitCode >>

\* TagOriginal with the two colours exchanged
TagOriginalSwapped ==
    /\ pc = "tag"
    /\ IF ~isBlue
       THEN /\ xBlueOrig' = Append(xBlueOrig, Cur.coords[1])
            /\ yBlueOrig' = Append(yBlueOrig, Cur.coords[2])
            /\ UNCHANGED << xRedOrig, yRedOrig >>
       ELSE /\ xRedOrig' = Append(xRedOrig, Cur.coords[1])
            /\ yRedOrig' = Append(yRedOrig, Cur.coords[2])
            /\ UNCHANGED << xBlueOrig, yBlueOrig >>
    /\ pc' = "orig"
    /\ UNCHANGED << argc, argv3, inputFile, openable, rangesBlue, rangesRed,
                    writeOriginal, points, outState, out, stdout, stderr,
                    xDisp, yDisp,
                    idx, number, nExt, extList, i, graphs, exitCode >>

\* Classify original point for plotting
TagOriginal ==
    /\ pc = "tag"
    /\ IF isBlue
       THEN /\ xBlueOrig' = Append(xBlueOrig, Cur.coords[1])
            /\ yBlueOrig' = Append(yBlueOrig, Cur.coords[2])
            /\ UNCHANGED << xRedOrig, yRedOrig >>
       ELSE /\ xRedOrig' = Append(xRedOrig, Cur.coords[1])
            /\ yRedOrig' = Append(yRedOrig, Cur.coords[2])
            /\ UNCHANGED << xBlueOrig, yBlueOrig >>
    /\ pc' = "orig"
    /\ UNCHANGED << argc, argv3, inputFile, openable, rangesBlue, rangesRed,
                    writeOriginal, points, outState, out, stdout, stderr,
                    xDisp, yDisp,
                    idx, number, nExt, extList, i, graphs, exitCode >>

\* originalLines writing the point whatever the flag
originalLinesAlways(p, flag) ==
    << FormatLine(p.label, p.coords[1], p.coords[2], p.coords[3]) >>

\* if (writeOriginal) out << p.label << "," << x << "," << y << "," << z
originalLines(p, flag) ==
    IF flag
    THEN << FormatLine(p.label, p.coords[1], p.coords[2], p.coords[3]) >>
    ELSE << >>

\* Write original point to CSV unless suppressed
WriteOriginal ==
    /\ pc = "orig"
    /\ out' = out \o originalLines(Cur, writeOriginal)
    /\ i' = 0
    /\ pc' = "disp"
    /\ UNCHANGED << argc, argv3, inputFile, openable, rangesBlue, rangesRed,
                    writeOriginal, points, outState, stdout, stderr,
                    xBlueOrig, yBlueOrig, xRedOrig, yRedOrig, xDisp, yDisp,
                    idx, number, nExt, extList, graphs, exitCode >>

\* label and coordinates of the displaced point of p by e
displacedLabel(p, e) == p.label \o e.ext
xNew(p, e) == p.coords[1] + e.dx
yNew(p, e) == p.coords[2] + e.dy
zNew(p, e) == p.coords[3] + e.dz

\* entry taking the array from its last element down
entryFromEnd(set, k) == ExtArray(set)[ExtCount(set) - k]

\* const Extension& e = extList[i]
entry(set, k) == ExtArray(set)[k + 1]

\* for (int i = 0; i < nExt; ++i): one displaced point, or the end of the body
Displace ==
    /\ pc = "disp"
    /\ IF i < nExt
       THEN LET e == entry(extList, i)
            IN  /\ out' = Append(out, FormatLine(displacedLabel(Cur, e),
                                   xNew(Cur, e), yNew(Cur, e), zNew(Cur, e)))
                /\ xDisp' = Append(xDisp, xNew(Cur, e))
                /\ yDisp' = Append(yDisp, yNew(Cur, e))
                /\ i' = i + 1
                /\ UNCHANGED pc
       ELSE /\ pc' = "loop"
            /\ UNCHANGED << out, xDisp, yDisp, i >>
    /\ UNCHANGED << argc, argv3, inputFile, openable, rangesBlue, rangesRed,
                    writeOriginal, points, outState, stdout, stderr,
                    xBlueOrig, yBlueOrig, xRedOrig, yRedOrig,
                    idx, number, nExt, extList, graphs, exitCode >>

\* out.close(); std::cout << "Wrote " << outputFile
CloseOutput ==
    /\ pc = "close"
    /\ outState' = "closed"
    /\ stdout' = Append(stdout, "Wrote outputFile")
    /\ pc' = "plot"
    /\ UNCHANGED << argc, argv3, inputFile, openable, rangesBlue, rangesRed,
                    writeOriginal, points, out, stderr,
                    xBlueOrig, yBlueOrig, xRedOrig, yRedOrig, xDisp, yDisp,
                    idx, number, nExt, extList, i, graphs, exitCode >>

\* new TGraph(n, x.data(), y.data()) for each non-empty pair of vectors
TGraph(name, xs, ys) == [name |-> name, x |-> xs, y |-> ys]

\* ROOT plotting: the graphs drawn on the canvas and saved
Plot ==
    /\ pc = "plot"
    /\ graphs' =
         (IF xDisp # << >>
          THEN { TGraph("grDisplaced", xDisp, yDisp) } ELSE {})
         \cup
         (IF xBlueOrig # << >>
          THEN { TGraph("grBlueOriginal", xBlueOrig, yBlueOrig) } ELSE {})
         \cup
         (IF xRedOrig # << >>
          THEN { TGraph("grRedOriginal", xRedOrig, yRedOrig) } ELSE {})
    /\ pc' = "run"
    /\ UNCHANGED << argc, argv3, inputFile, openable, rangesBlue, rangesRed,
                    writeOriginal, points, outState, out, stdout, stderr,
                    xBlueOrig, yBlueOrig, xRedOrig, yRedOrig, xDisp, yDisp,
                    idx, number, nExt, extList, i, exitCode >>

\* app.Run(): the ROOT event loop, left when the user quits the application
AppRun ==
    /\ pc = "run"
    /\ exitCode' = {0}
    /\ pc' = "exited"
    /\ UNCHANGED << argc, argv3, inputFile, openable, rangesBlue, rangesRed,
                    writeOriginal, points, outState, out, stdout, stderr,
                    xBlueOrig, yBlueOrig, xRedOrig, yRedOrig, xDisp, yDisp,
                    idx, number, nExt, extList, i, graphs >>

Next ==
    \/ ParseArgs
    \/ ReadPoints
    \/ OpenOutput
    \/ LoopHead
    \/ ExtractNumber
    \/ ChooseSet
    \/ TagOriginal
    \/ WriteOriginal
    \/ Displace
    \/ CloseOutput
    \/ Plot
    \/ AppRun

Spec == Init /\ [][Next]_vars

\* the program on one-point input files with every label of AllLabels
InitLabels == InitWith(LabelFiles, DefaultTables, 2..5, BOOLEAN)
SpecLabels == InitLabels /\ [][Next]_vars

\* the program rebuilt with edited range tables, on one-point input files
InitCfg == InitWith(CfgFiles, EditedTables, {3}, {TRUE})
SpecCfg == InitCfg /\ [][Next]_vars

-----------------------------------------------------------------------------
(* Vocabulary of the properties                                            *)

\* main() is inside or after the loop body of point idx with `number` set
NumberValid == pc \in { "choose", "tag", "orig", "disp", "loop" } /\ idx >= 1

\* ... and with the displacement set of point idx chosen
SetValid == pc \in { "tag", "orig", "disp", "loop" } /\ idx >= 1

\* the processing loop has consumed all points
LoopDone == pc \in { "close", "plot", "run" } \/ (pc = "exited" /\ exitCode = {0})

HasDigit(label) == \E k \in DOMAIN label : label[k] \in DigitChars

\* the digit characters of a label, in their order of appearance
DigitString(label) == SelectSeq(label, LAMBDA c : c \in DigitChars)

\* the base-10 integer a string of digits denotes: digit k of n weighs 10^(n-k)
Base10(ds) ==
    LET n == Len(ds)
        sum[k \in 0..n] ==
            IF k = 0 THEN 0 ELSE sum[k - 1] + DigitVal(ds[k]) * 10 ^ (n - k)
    IN  sum[n]

\* value lies in some range of the table, bounds inclusive
InSomeRange(table, k) ==
    \E j \in DOMAIN table : table[j].lo <= k /\ k <= table[j].hi

ABC015Z9 == << "A", "B", "C", "0", "1", "5", "Z", "9" >>
P015 == << "P", "0", "1", "5" >>

-----------------------------------------------------------------------------
(* C1: whenever extractLabelNumber has returned for a label holding a      *)
(* digit, the number is the base-10 integer formed by all the digit        *)
(* characters of the label in their order of appearance, non-digits        *)
(* ignored: separated groups are concatenated and leading zeros do not     *)
(* count (ABC015Z9 gives 159 and P015 gives 15).                           *)
C1_DigitsConcatenated ==
    (NumberValid /\ HasDigit(Cur.label)) =>
        /\ number = Base10(DigitString(Cur.label))
        /\ (Cur.label = ABC015Z9 => number = 159)
        /\ (Cur.label = P015 => number = 15)

\* ABC015Z9 has been classified, with the number 159
C1_Witness == NumberValid /\ Cur.label = ABC015Z9 /\ number = 159

(* C2: for a label without any digit, extractLabelNumber yields the        *)
(* sentinel -1 and chooseSet returns the RED set, whatever the BLUE and    *)
(* RED range tables hold.                                                  *)
C2_NoDigitFallsBackToRed ==
    (NumberValid /\ ~HasDigit(Cur.label)) =>
        /\ number = -1
        /\ (SetValid => extList = "RED" /\ nExt = numExtRed)

\* a label without digits resolved to RED although a BLUE range holds -1
C2_Witness ==
    /\ SetValid /\ ~HasDigit(Cur.label)
    /\ InSomeRange(rangesBlue, -1)
    /\ extList = "RED"

(* C3: a key inside a range of a category (lo <= k <= hi, both bounds      *)
(* included) and in no range of a higher-priority category resolves to     *)
(* that category: BLUE for a key in a BLUE range, RED for a key in a RED   *)
(* range and in no BLUE range.                                             *)
C3_InRangeResolvesToCategory ==
    (SetValid /\ number >= 0) =>
        /\ (InSomeRange(rangesBlue, number) => extList = "BLUE")
        /\ (InSomeRange(rangesRed, number) /\ ~InSomeRange(rangesBlue, number)
               => extList = "RED")

\* a key equal to the upper bound of a BLUE range, above its lower bound,
\* resolved to BLUE
C3_Witness ==
    /\ SetValid /\ extList = "BLUE"
    /\ \E j \in DOMAIN rangesBlue :
           rangesBlue[j].hi = number /\ rangesBlue[j].lo < number

(* C4: a key that lies in a BLUE range and in a RED range resolves to      *)
(* BLUE, the first-declared category, never to RED.                        *)
C4_OverlapResolvesToBlue ==
    (SetValid /\ number >= 0
       /\ InSomeRange(rangesBlue, number) /\ InSomeRange(rangesRed, number))
        => extList = "BLUE" /\ extList # "RED"

\* a key in a range of both tables has been resolved
C4_Witness ==
    /\ SetValid /\ number >= 0
    /\ InSomeRange(rangesBlue, number) /\ InSomeRange(rangesRed, number)
    /\ extList = "BLUE"

\* the line of the CSV file for the point p displaced by the entry e
DerivedLine(p, e) ==
    FormatLine(p.label \o e.ext,
               p.coords[1] + e.dx, p.coords[2] + e.dy, p.coords[3] + e.dz)

\* the last n lines of the file are the point p displaced by the set, in order
LastLinesAre(p, set) ==
    /\ Len(out) >= Len(set)
    /\ \A k \in 1..Len(set) :
           out[Len(out) - Len(set) + k] = DerivedLine(p, set[k])

(* C5: a key that lies in no range of either table (with the tables of the *)
(* program: 0 and every key from 43 on) resolves to RED, the fallback, and *)
(* the point is displaced with the RED set: its seven RED lines are        *)
(* written, never no displacement.                                         *)
C5_NoRangeFallsBackToRed ==
    /\ (SetValid /\ number >= 0
          /\ ~InSomeRange(rangesBlue, number) /\ ~InSomeRange(rangesRed, number))
         => /\ extList = "RED"
            /\ nExt = numExtRed /\ nExt > 0
            /\ (pc = "loop" => LastLinesAre(Cur, extListRed))
    /\ (SetValid /\ << rangesBlue, rangesRed >> \in DefaultTables
          /\ (number = 0 \/ number >= 43))
         => extList = "RED"

\* with the tables of the program, the point of key 43 has been displaced
\* with the RED set
C5_Witness ==
    /\ pc = "loop" /\ idx = 1 /\ number = 43
    /\ << rangesBlue, rangesRed >> \in DefaultTables
    /\ extList = "RED"
    /\ LastLinesAre(Cur, extListRed)
    /\ out[Len(out)] # DerivedLine(Cur, extListBlue[numExtBlue])

-----------------------------------------------------------------------------
(* The output the documentation describes, from the input alone            *)

\* the category of a label under the tables of the program
CategoryOf(label) ==
    IF HasDigit(label)
         /\ InSomeRange(DefaultRangesBlue, Base10(DigitString(label)))
    THEN "BLUE" ELSE "RED"

SetOf(label) == IF CategoryOf(label) = "BLUE" THEN extListBlue ELSE extListRed
OtherSetOf(label) == IF CategoryOf(label) = "BLUE" THEN extListRed ELSE extListBlue

OriginalLine(p) == FormatLine(p.label, p.coords[1], p.coords[2], p.coords[3])

\* the lines of one source point: its optional original, then its derived
\* points in the order of its displacement set
Block(p, keep) ==
    (IF keep THEN << OriginalLine(p) >> ELSE << >>)
    \o [k \in 1..Len(SetOf(p.label)) |-> DerivedLine(p, SetOf(p.label)[k])]

\* the blocks of the points of ps, in the order of ps
ExpectedOutput(ps, keep) ==
    LET cat[k \in 0..Len(ps)] ==
            IF k = 0 THEN << >> ELSE cat[k - 1] \o Block(ps[k], keep)
    IN  cat[Len(ps)]

IsPrefix(s, t) == Len(s) <= Len(t) /\ s = SubSeq(t, 1, Len(s))

\* the number of points whose loop body has run to its end
Completed ==
    IF pc = "loop" \/ LoopDone THEN idx
    ELSE IF idx >= 1 THEN idx - 1 ELSE 0

\* size of the displacement sets, and of the block of one source point
M == numExtBlue
BlockSize == M + (IF writeOriginal THEN 1 ELSE 0)
BlockPos(j) == ((j - 1) * BlockSize + 1)..(j * BlockSize)

\* the file holds whole blocks for the completed points (not after an abort,
\* which loses the lines not yet flushed)
BlocksWritten == pc # "aborted" /\ Len(out) >= Completed * BlockSize

-----------------------------------------------------------------------------
(* C6: once the loop has consumed the N points of the input, the file      *)
(* holds N + N*M lines when the original is written and N*M lines when it  *)
(* is not, M being the size of both displacement sets; for N = 0 it holds  *)
(* no line and nothing was reported as an error.                           *)
C6_RecordCount ==
    LoopDone =>
        LET N == Len(inputFile)
        IN  /\ numExtBlue = M /\ numExtRed = M
            /\ Len(points) = N
            /\ Len(out) = IF writeOriginal THEN N + N * M ELSE N * M
            /\ (N = 0 => out = << >> /\ stderr = << >> /\ exitCode \subseteq {0})

\* two points processed without --no-original lines: fourteen lines
C6_Witness ==
    /\ LoopDone /\ ~writeOriginal
    /\ Len(inputFile) = 2 /\ Len(out) = 2 * M /\ M = 7

(* C7: for every processed point p and every entry e of the displacement   *)
(* set of p's category, exactly one line of p's block is the derived       *)
(* record of label p.label followed by e.ext and coordinates               *)
(* (x + e.dx, y + e.dy, z + e.dz) as the stream prints them; the block     *)
(* holds no other derived line, and none made from an entry that only the  *)
(* other set has.                                                          *)
C7_DerivedRecords ==
    pc # "aborted" =>
        /\ Len(out) >= Completed * BlockSize
        /\ \A j \in 1..Completed :
             LET p == points[j]
                 own == SetOf(p.label)
                 other == OtherSetOf(p.label)
                 lines == { pos \in BlockPos(j) : out[pos].label # p.label }
             IN  /\ \A k \in DOMAIN own :
                        Cardinality({ pos \in BlockPos(j) :
                                        out[pos] = DerivedLine(p, own[k]) }) = 1
                 /\ Cardinality(lines) = Len(own)
                 /\ \A k \in DOMAIN other :
                        (\A n \in DOMAIN own : own[n] # other[k])
                          => \A pos \in BlockPos(j) :
                                 out[pos] # DerivedLine(p, other[k])

\* a RED point and a BLUE point have both been displaced
C7_Witness ==
    /\ LoopDone /\ Len(points) = 2
    /\ CategoryOf(points[1].label) = "RED"
    /\ CategoryOf(points[2].label) = "BLUE"
    /\ out[Len(out)] = DerivedLine(points[2], extListBlue[7])
    /\ out[Len(out)] # DerivedLine(points[2], extListRed[7])

(* C8: the file is, in input order, the concatenation of the blocks of the *)
(* source points, each block being the optional original followed by the   *)
(* derived lines in displacement-set order: while the loop runs the file   *)
(* is the blocks of the completed points followed by the part of the       *)
(* current block written so far, and at the end it is all blocks; nothing  *)
(* is reordered, dropped or merged, duplicate labels included.             *)
C8_OutputOrder ==
    /\ pc = "aborted" => IsPrefix(out, ExpectedOutput(SubSeq(points, 1, Completed),
                                                      writeOriginal))
    /\ pc # "aborted" =>
         LET done == ExpectedOutput(SubSeq(points, 1, Completed), writeOriginal)
         IN  IF pc = "disp"
             THEN out = done \o SubSeq(Block(Cur, writeOriginal), 1,
                                       (BlockSize - M) + i)
             ELSE out = done
    /\ LoopDone => out = ExpectedOutput(inputFile, writeOriginal)

\* two points with the same label, each followed by its own derived lines
C8_Witness ==
    /\ LoopDone /\ writeOriginal /\ Len(inputFile) = 2
    /\ inputFile[1].label = inputFile[2].label
    /\ inputFile[1].coords # inputFile[2].coords
    /\ out[1] = OriginalLine(inputFile[1])
    /\ out[BlockSize + 1] = OriginalLine(inputFile[2])
    /\ out[2].label = out[BlockSize + 2].label

\* the fields of a line are exactly the coordinates (no digit was rounded)
SameCoords(line, p) ==
    /\ line.x * (Scale \div 1000) = p.coords[1]
    /\ line.y * (Scale \div 1000) = p.coords[2]
    /\ line.z * (Scale \div 1000) = p.coords[3]

\* the coordinates have at most three decimal digits
ThreeDecimals(p) == \A c \in 1..3 : p.coords[c] % (Scale \div 1000) = 0

(* C9: when the original is written, the block of every processed point    *)
(* starts with the line of that point, label and coordinates as the stream *)
(* prints them (digit for digit those of the input when it has at most     *)
(* three decimals), and no other line of the block bears the unchanged     *)
(* label; with --no-original no line of the block bears the unchanged      *)
(* label.                                                                  *)
C9_OriginalEmission ==
    pc # "aborted" =>
        /\ Len(out) >= Completed * BlockSize
        /\ \A j \in 1..Completed :
             LET p == points[j]
                 first == (j - 1) * BlockSize + 1
                 same == { pos \in BlockPos(j) : out[pos].label = p.label }
             IN  IF writeOriginal
                 THEN /\ out[first] = OriginalLine(p)
                      /\ same = { first }
                      /\ (ThreeDecimals(p) => SameCoords(out[first], p))
                 ELSE same = {}

\* a point written unchanged before its derived lines
C9_Witness ==
    /\ LoopDone /\ writeOriginal /\ Len(points) >= 1
    /\ ThreeDecimals(points[1])
    /\ out[1].label = points[1].label /\ SameCoords(out[1], points[1])
    /\ out[2].label = points[1].label \o << "_", "1" >>

\* the plot vectors main() fills for the points ps: a function of ps alone
OrigCoord(ps, cat, c) ==
    LET acc[k \in 0..Len(ps)] ==
            IF k = 0 THEN << >>
            ELSE IF CategoryOf(ps[k].label) = cat
                 THEN Append(acc[k - 1], ps[k].coords[c])
                 ELSE acc[k - 1]
    IN  acc[Len(ps)]

DispCoord(ps, c) ==
    LET acc[k \in 0..Len(ps)] ==
            IF k = 0 THEN << >>
            ELSE acc[k - 1] \o
                 [n \in 1..Len(SetOf(ps[k].label)) |->
                     ps[k].coords[c] +
                     (IF c = 1 THEN SetOf(ps[k].label)[n].dx
                               ELSE SetOf(ps[k].label)[n].dy)]
    IN  acc[Len(ps)]

(* C10: the coordinate lists handed to the visualization depend on the     *)
(* input points only, not on --no-original: after the loop, with the flag  *)
(* or without, the BLUE-original, RED-original and displaced lists are the *)
(* same function of the input, the original lists hold every input point, *)
(* and the graphs ROOT receives are built from these lists.                *)
C10_PlotIgnoresNoOriginal ==
    LoopDone =>
        /\ xBlueOrig = OrigCoord(inputFile, "BLUE", 1)
        /\ yBlueOrig = OrigCoord(inputFile, "BLUE", 2)
        /\ xRedOrig = OrigCoord(inputFile, "RED", 1)
        /\ yRedOrig = OrigCoord(inputFile, "RED", 2)
        /\ xDisp = DispCoord(inputFile, 1)
        /\ yDisp = DispCoord(inputFile, 2)
        /\ Len(xBlueOrig) + Len(xRedOrig) = Len(inputFile)
        /\ (pc \in { "run", "exited" } =>
              /\ \A g \in graphs :
                    \/ g.name = "grBlueOriginal" /\ g.x = xBlueOrig /\ g.y = yBlueOrig
                    \/ g.name = "grRedOriginal" /\ g.x = xRedOrig /\ g.y = yRedOrig
                    \/ g.name = "grDisplaced" /\ g.x = xDisp /\ g.y = yDisp
              /\ (xBlueOrig # << >> => \E g \in graphs : g.name = "grBlueOriginal")
              /\ (xRedOrig # << >> => \E g \in graphs : g.name = "grRedOriginal"))

\* with --no-original the file holds no original line and the plot holds
\* both originals
C10_Witness ==
    /\ pc = "run" /\ ~writeOriginal /\ Len(inputFile) = 2
    /\ Len(out) = 2 * M
    /\ Len(xBlueOrig) = 1 /\ Len(xRedOrig) = 1
    /\ Cardinality(graphs) = 3

-----------------------------------------------------------------------------
\* the indices of the small diagonal and of the large radial entries
Diagonals == 1..4
Radials == 5..7

(* C11: mirror invariant of the catalog.  The four diagonal entries of the *)
(* BLUE and RED sets have the same (dx, dy, dz) and are not mirrored; the  *)
(* three radial entries have the same dx and dz and opposite dy.  Hence a  *)
(* RED and a BLUE point of equal coordinates get displaced points that are *)
(* equal for the diagonals and mirrored in y about the point for the       *)
(* radials.                                                                *)
C11_MirrorInvariant ==
    /\ \A k \in Diagonals :
          /\ extListRed[k].dx = extListBlue[k].dx
          /\ extListRed[k].dy = extListBlue[k].dy
          /\ extListRed[k].dz = extListBlue[k].dz
          /\ extListRed[k].dy # -extListBlue[k].dy
    /\ \A k \in Radials :
          /\ extListRed[k].dx = extListBlue[k].dx
          /\ extListRed[k].dy = -extListBlue[k].dy
          /\ extListRed[k].dz = extListBlue[k].dz
    /\ (LoopDone /\ Len(points) = 2 /\ Len(xBlueOrig) = 1 /\ Len(xRedOrig) = 1
          /\ points[1].coords = points[2].coords)
         => LET y == points[1].coords[2]
            IN  /\ Len(xDisp) = 2 * M /\ Len(yDisp) = 2 * M
                /\ \A k \in 1..M : xDisp[k] = xDisp[M + k]
                /\ \A k \in Diagonals : yDisp[k] = yDisp[M + k]
                /\ \A k \in Radials : yDisp[k] - y = -(yDisp[M + k] - y)

\* a RED point and then a BLUE point of equal coordinates have been
\* displaced: entry 5 differs in y between them, entry 1 does not
C11_Witness ==
    /\ LoopDone /\ Len(points) = 2 /\ points[1].coords = points[2].coords
    /\ xRedOrig = << points[1].coords[1] >> /\ xBlueOrig = << points[2].coords[1] >>
    /\ CategoryOf(points[1].label) = "RED"
    /\ yDisp[5] # yDisp[M + 5] /\ yDisp[1] = yDisp[M + 1]
    /\ yDisp[5] + yDisp[M + 5] = 2 * points[1].coords[2]

-----------------------------------------------------------------------------
(* C12: classification never raises an error.  For every label, labels     *)
(* whose digit string does not fit the integer type included,              *)
(* extractLabelNumber returns an integer key or the sentinel -1, and the   *)
(* run goes on to resolve a category: the program never aborts, and once   *)
(* a point has been taken from the input its label has a key.              *)
C12_ClassificationNeverRaises ==
    /\ pc # "aborted"
    /\ (pc = "extract" /\ idx >= 1) => ~extractThrows(Cur.label)
    /\ exitCode \subseteq { 0, 1 }

-----------------------------------------------------------------------------
\* the command line is rejected: wrong argument count or an unknown option
BadArgs == argc \notin { 3, 4 } \/ (argc = 4 /\ argv3 # NoOriginal)

\* the run has ended with exit code 1 and nothing has reached the output
FailedEmpty ==
    /\ pc = "exited" /\ exitCode = {1}
    /\ out = << >> /\ outState = "none" /\ stdout = << >>

-----------------------------------------------------------------------------
\* the process is over, by a return from main or by an abort
Ended == pc \in { "exited", "aborted" }

(* C14: normal termination.  In every run with valid arguments and an      *)
(* output file that can be opened, the program writes all the records,     *)
(* closes the output file, prints the summary line, and ends with exit     *)
(* code 0: no such run ends in any other way.                              *)
C14_NormalTermination ==
    (~BadArgs /\ openable /\ Ended) =>
        /\ exitCode = {0}
        /\ pc = "exited"
        /\ outState = "closed"
        /\ stdout = << "Wrote outputFile" >>
        /\ Len(out) = Len(points) * BlockSize

-----------------------------------------------------------------------------
\* the suffixes _1 .. _7
Suffixes ==
    << <<"_", "1">>, <<"_", "2">>, <<"_", "3">>, <<"_", "4">>,
       <<"_", "5">>, <<"_", "6">>, <<"_", "7">> >>

\* position in the file of the k-th derived line of the j-th point
DerivedPos(j, k) == (j - 1) * BlockSize + (BlockSize - M) + k

(* C15: both displacement sets have exactly 7 entries, with the suffixes   *)
(* _1 .. _7 in this order, pairwise distinct.  Hence every point whose     *)
(* loop body has completed has exactly 7 derived lines in the file,        *)
(* labelled label_1 .. label_7 in order, after its original line when the  *)
(* original is written.                                                    *)
C15_SevenSuffixes ==
    /\ numExtBlue = 7 /\ numExtRed = 7
    /\ Len(extListBlue) = 7 /\ Len(extListRed) = 7
    /\ \A k \in 1..7 :
          /\ extListBlue[k].ext = Suffixes[k]
          /\ extListRed[k].ext = Suffixes[k]
    /\ \A k \in 1..7 : \A l \in 1..7 :
          k # l => /\ extListBlue[k].ext # extListBlue[l].ext
                   /\ extListRed[k].ext # extListRed[l].ext
    /\ BlocksWritten =>
          /\ BlockSize = 7 + (IF writeOriginal THEN 1 ELSE 0)
          /\ \A j \in 1..Completed :
                /\ writeOriginal =>
                      out[(j - 1) * BlockSize + 1].label = points[j].label
                /\ \A k \in 1..7 :
                      /\ DerivedPos(j, k) <= Len(out)
                      /\ out[DerivedPos(j, k)].label = points[j].label \o Suffixes[k]
          /\ (LoopDone => Len(out) = Len(points) * BlockSize)

\* the point A1 has been written with its original line: A1, A1_1 .. A1_7
C15_Witness ==
    /\ LoopDone /\ writeOriginal /\ Len(points) >= 1 /\ Len(out) >= 8
    /\ points[1].label = <<"A", "1">>
    /\ [k \in 1..8 |-> out[k].label] =
          << <<"A", "1">> >> \o [k \in 1..7 |-> <<"A", "1">> \o Suffixes[k]]

-----------------------------------------------------------------------------
(* C16: the category depends on the BLUE ranges alone.  chooseSet returns  *)
(* the BLUE set exactly when the key is valid (not the sentinel) and lies  *)
(* in some BLUE range, and the RED set otherwise, so the result is the     *)
(* same whatever the RED range table holds; with the BLUE table of the     *)
(* program, a point is BLUE iff its label number is in some BLUE range.    *)
C16_BlueRangesDecide ==
    SetValid =>
        /\ extList = "BLUE" <=> (number >= 0 /\ InSomeRange(rangesBlue, number))
        /\ extList # "BLUE" => (extList = "RED" /\ nExt = numExtRed)
        /\ extList = "BLUE" => nExt = numExtBlue
        /\ \A t \in Tables : chooseSet(rangesBlue, t, number) = extList
        /\ rangesBlue = DefaultRangesBlue =>
              (extList = "BLUE" <=> InSomeRange(DefaultRangesBlue, number))

\* a key of a RED range only has been resolved to RED, as it would have
\* been with an empty RED table
C16_Witness ==
    /\ SetValid /\ number >= 0 /\ rangesBlue # << >>
    /\ InSomeRange(rangesRed, number) /\ ~InSomeRange(rangesBlue, number)
    /\ extList = "RED"
    /\ chooseSet(rangesBlue, << >>, number) = "RED"

-----------------------------------------------------------------------------
\* the category whose set produced the derived lines of the j-th point, read
\* from the file: the radial entries tell the two sets apart
FileCategory(j) ==
    IF \A k \in 1..M : out[DerivedPos(j, k)] = DerivedLine(points[j], extListBlue[k])
    THEN "BLUE"
    ELSE IF \A k \in 1..M : out[DerivedPos(j, k)] = DerivedLine(points[j], extListRed[k])
    THEN "RED"
    ELSE "none"

\* coordinate c of the points whose derived lines come from the set of cat,
\* in input order
TaggedCoord(cat, c) ==
    LET acc[k \in 0..Len(points)] ==
            IF k = 0 THEN << >>
            ELSE IF FileCategory(k) = cat
                 THEN Append(acc[k - 1], points[k].coords[c])
                 ELSE acc[k - 1]
    IN  acc[Len(points)]

\* the plot lists after the loop, against the file
PlotListsMatchFile ==
    (LoopDone /\ Len(out) = Len(points) * BlockSize) =>
        LET N == Len(points)
        IN  /\ \A j \in 1..N : FileCategory(j) \in { "BLUE", "RED" }
            /\ xBlueOrig = TaggedCoord("BLUE", 1) /\ yBlueOrig = TaggedCoord("BLUE", 2)
            /\ xRedOrig = TaggedCoord("RED", 1) /\ yRedOrig = TaggedCoord("RED", 2)
            /\ Len(xBlueOrig) + Len(xRedOrig) = N
            /\ Len(yBlueOrig) + Len(yRedOrig) = N
            /\ Len(xDisp) = N * M /\ Len(yDisp) = N * M
            /\ \A j \in 1..N : \A k \in 1..M :
                  /\ out[DerivedPos(j, k)].x = Fixed3(xDisp[(j - 1) * M + k])
                  /\ out[DerivedPos(j, k)].y = Fixed3(yDisp[(j - 1) * M + k])

(* C17: plot tagging.  After the loop has processed the N points, the      *)
(* (x, y) of each point is in exactly one of the BLUE-original and         *)
(* RED-original lists, the one of the category whose set produced its      *)
(* derived lines in the file; the two lists hold N entries together; the   *)
(* displaced list holds one entry per derived line, with the x and y of    *)
(* that line; and the tagging step leaves the file as it is.               *)
C17_PlotTagging ==
    /\ [](LoopDone => Len(out) = Len(points) * BlockSize)
    /\ []PlotListsMatchFile
    /\ [][pc = "tag" => (out' = out /\ points' = points /\ outState' = outState)]_vars

\* a RED and a BLUE point have gone to different lists, fourteen displaced
C17_Witness ==
    /\ LoopDone /\ Len(points) = 2 /\ Len(out) = 2 * BlockSize
    /\ FileCategory(1) = "RED" /\ FileCategory(2) = "BLUE"
    /\ xRedOrig = << points[1].coords[1] >> /\ yRedOrig = << points[1].coords[2] >>
    /\ xBlueOrig = << points[2].coords[1] >> /\ yBlueOrig = << points[2].coords[2] >>
    /\ Len(xDisp) = 14

-----------------------------------------------------------------------------
\* the ranges of both tables of the program, each with its table and index
AllRanges ==
    { << "BLUE", j >> : j \in DOMAIN DefaultRangesBlue }
      \cup { << "RED", j >> : j \in DOMAIN DefaultRangesRed }

RangeAt(tj) ==
    IF tj[1] = "BLUE" THEN DefaultRangesBlue[tj[2]] ELSE DefaultRangesRed[tj[2]]

\* the ranges of the program that hold the key k
RangesHolding(k) ==
    { tj \in AllRanges : RangeAt(tj).lo <= k /\ k <= RangeAt(tj).hi }

(* C18: the range tables of the program are well formed: every range has   *)
(* lo <= hi, no integer lies in a BLUE and in a RED range, and every       *)
(* integer from 1 to 42 lies in exactly one range.  Hence no key is ever   *)
(* decided by the priority of BLUE over RED, and the fallback is reached   *)
(* only for the sentinel, for key 0 and for keys above 42.                 *)
C18_DefaultTablesPartition ==
    /\ \A tj \in AllRanges : RangeAt(tj).lo <= RangeAt(tj).hi
    /\ \A b \in DOMAIN DefaultRangesBlue : \A d \in DOMAIN DefaultRangesRed :
          \/ DefaultRangesBlue[b].hi < DefaultRangesRed[d].lo
          \/ DefaultRangesRed[d].hi < DefaultRangesBlue[b].lo
    /\ \A k \in 1..42 : Cardinality(RangesHolding(k)) = 1
    /\ RangesHolding(0) = {} /\ RangesHolding(43) = {} /\ RangesHolding(-1) = {}
    /\ \A tj \in AllRanges : 1 <= RangeAt(tj).lo /\ RangeAt(tj).hi <= 42
    /\ << rangesBlue, rangesRed >> = << DefaultRangesBlue, DefaultRangesRed >>
    /\ SetValid =>
          /\ ~(InSomeRange(rangesBlue, number) /\ InSomeRange(rangesRed, number))
          /\ (number >= 0 /\ InSomeRange(rangesBlue, number)) => extList = "BLUE"
          /\ (~InSomeRange(rangesBlue, number) /\ ~InSomeRange(rangesRed, number))
                <=> (number = -1 \/ number = 0 \/ number > 42)
          /\ (number = -1 \/ number = 0 \/ number > 42) => extList = "RED"

\* the key 159 of ABC015Z9, in no range, has fallen back to RED
C18_Witness ==
    /\ SetValid /\ Cur.label = ABC015Z9 /\ number = 159
    /\ RangesHolding(number) = {}
    /\ extList = "RED"

====
